---- MODULE Spec2Model ----
(***************************************************************************)
(* Model of src/routes/books.js: the five express handlers of the /books   *)
(* router over the lowdb collection "books".                               *)
(*                                                                         *)
(* books is the in-memory collection behind req.app.db.get("books").       *)
(* lowdb's write() first evaluates the lodash chain (which mutates the     *)
(* in-memory array) and only then hands the state to the adapter, so a     *)
(* write that throws leaves the in-memory mutation in place.               *)
(*                                                                         *)
(* A record is a function from field names to values.  A request body is   *)
(* a function over any subset of Fields.  The value JavaScript calls       *)
(* undefined is the record Undefined.                                      *)
(*                                                                         *)
(* op, reqId, reqBody describe the last request; failed tells whether the  *)
(* adapter threw while persisting it; removed is the number of records     *)
(* _.remove took out of the collection for it.                             *)
(*                                                                         *)
(* sends is the sequence of res.send / res.sendStatus calls the handler    *)
(* of the last request made, in order; the client observes the first.      *)
(***************************************************************************)
EXTENDS Integers, Sequences, FiniteSets, TLC

VARIABLES books, nano, op, reqId, reqBody, failed, removed, sends

vars == <<books, nano, op, reqId, reqBody, failed, removed, sends>>

\* ---------------------------------------------------------------- bounds
\* nanoid is called at most MaxNano times, so at most MaxNano records exist
MaxNano == 2

\* ------------------------------------------------------------- constants
idLength == 8

Fields == {"id", "title"}
TextVals == {"Dune", "Emma"}
ClientIds == {"nonexistent-id"}

Undefined == [undefined |-> TRUE]
StoreError == [error |-> TRUE]
NoBody == [f \in {} |-> ""]
\* res.sendStatus(code) sends the status text as the body
Text(s) == [text |-> s]

\* ----------------------------------------------------------- identifiers
\* nanoid(size): the n-th call returns a token of `size` characters that no
\* earlier call returned.
RECURSIVE Pad(_)
Pad(k) == IF k <= 0 THEN "" ELSE "0" \o Pad(k - 1)

nanoid(n, size) == Pad(size - Len(ToString(n))) \o ToString(n)

\* the tokens the successive calls nanoid(idLength) return
Tokens == [n \in 1..(MaxNano + 1) |-> nanoid(n, idLength)]

SeenIds == {Tokens[n] : n \in 1..nano}

\* ids a client puts in a path: any id a response has shown, or a string of
\* its own that was never generated
PathIds == SeenIds \cup ClientIds

\* request bodies: any subset of Fields; an `id` field carries an id some
\* response has shown, a `title` field a value of TextVals
Bodies ==
  {NoBody}
    \cup {[id |-> i] : i \in SeenIds}
    \cup {[title |-> t] : t \in TextVals}
    \cup {[id |-> i, title |-> t] : i \in SeenIds, t \in TextVals}

\* ------------------------------------------------------ lodash primitives
matches(r, id) == "id" \in DOMAIN r /\ r["id"] = id

Has(coll, id) == \E i \in 1..Len(coll) : matches(coll[i], id)

findIndex(coll, id) ==
  IF Has(coll, id)
  THEN CHOOSE i \in 1..Len(coll) :
         /\ matches(coll[i], id)
         /\ \A j \in 1..(i - 1) : ~matches(coll[j], id)
  ELSE 0

\* find that takes the head of the collection without comparing ids
findHead(coll, id) == IF Len(coll) = 0 THEN Undefined ELSE coll[1]

find(coll, id) ==
  IF findIndex(coll, id) = 0 THEN Undefined ELSE coll[findIndex(coll, id)]

\* { ...a, ...b } and _.assign(a, b)
merge(a, b) ==
  [f \in (DOMAIN a) \cup (DOMAIN b) |-> IF f \in DOMAIN b THEN b[f] ELSE a[f]]

\* assign that inserts the body as a new record when no record matches
assignOrPush(coll, id, body) ==
  IF findIndex(coll, id) = 0
  THEN Append(coll, merge([id |-> id], body))
  ELSE [coll EXCEPT ![findIndex(coll, id)] = merge(@, body)]

assign(coll, id, body) ==
  IF findIndex(coll, id) = 0
  THEN coll
  ELSE [coll EXCEPT ![findIndex(coll, id)] = merge(@, body)]

\* remove that takes out the first matching record only
removeFirst(coll, id) ==
  IF findIndex(coll, id) = 0
  THEN coll
  ELSE SubSeq(coll, 1, findIndex(coll, id) - 1)
         \o SubSeq(coll, findIndex(coll, id) + 1, Len(coll))

remove(coll, id) == SelectSeq(coll, LAMBDA r : ~matches(r, id))

\* --------------------------------------------------------------- handlers
Send(status, body) == [status |-> status, body |-> body]

\* try { ...write(); res.send(ok) } catch (e) { return res.status(500).send(e) }
\* handler that sends its success response before the write
sendThenWrite(fail, ok) == IF fail THEN <<ok, Send(500, StoreError)>> ELSE <<ok>>

tryWrite(fail, ok) == IF fail THEN <<Send(500, StoreError)>> ELSE <<ok>>

\* router.get("/")
List ==
  /\ op' = "list"
  /\ reqId' = ""
  /\ reqBody' = NoBody
  /\ failed' = FALSE
  /\ removed' = 0
  /\ sends' = <<Send(200, books)>>
  /\ UNCHANGED <<books, nano>>

\* router.get("/:id")
Get(id) ==
  LET book == find(books, id) IN
  /\ op' = "get"
  /\ reqId' = id
  /\ reqBody' = NoBody
  /\ failed' = FALSE
  /\ removed' = 0
  /\ sends' = IF book = Undefined
              THEN <<Send(404, Text("Not Found")), Send(404, book)>>
              ELSE <<Send(200, book)>>
  /\ UNCHANGED <<books, nano>>

\* router.post("/")
Create(body, fail) ==
  LET newBook == merge([id |-> Tokens[nano + 1]], body) IN
  /\ nano < MaxNano
  /\ op' = "post"
  /\ reqId' = ""
  /\ reqBody' = body
  /\ failed' = fail
  /\ removed' = 0
  /\ nano' = nano + 1
  /\ books' = Append(books, newBook)
  /\ sends' = tryWrite(fail, Send(200, newBook))

\* router.put("/:id")
Update(id, body, fail) ==
  /\ op' = "put"
  /\ reqId' = id
  /\ reqBody' = body
  /\ failed' = fail
  /\ removed' = 0
  /\ books' = assign(books, id, body)
  /\ sends' = tryWrite(fail, Send(200, find(books', id)))
  /\ UNCHANGED nano

\* router.delete("/:id")
Delete(id, fail) ==
  /\ op' = "delete"
  /\ reqId' = id
  /\ reqBody' = NoBody
  /\ failed' = fail
  /\ books' = remove(books, id)
  /\ removed' = Len(books) - Len(books')
  /\ sends' = tryWrite(fail, Send(200, Text("OK")))
  /\ UNCHANGED nano

Init ==
  /\ books = <<>>
  /\ nano = 0
  /\ op = "none"
  /\ reqId = ""
  /\ reqBody = NoBody
  /\ failed = FALSE
  /\ removed = 0
  /\ sends = <<>>

Next ==
  \/ List
  \/ \E id \in PathIds : Get(id)
  \/ \E body \in Bodies, fail \in BOOLEAN : Create(body, fail)
  \/ \E id \in PathIds, body \in Bodies, fail \in BOOLEAN :
       Update(id, body, fail)
  \/ \E id \in PathIds, fail \in BOOLEAN : Delete(id, fail)

Spec == Init /\ [][Next]_vars

TypeOK ==
  /\ Len(books) <= MaxNano
  /\ nano \in 0..MaxNano
  /\ removed \in 0..MaxNano
  /\ \A i \in 1..Len(books) :
       "id" \in DOMAIN books[i] /\ DOMAIN books[i] \subseteq Fields

\* ------------------------------------------------------------------ claims
\* C1: the record a Create appends, and the record it returns, carry the id
\* nanoid generated for that request, whatever the body contains.
C1_CreateIdIsGenerated ==
  op = "post" =>
    /\ books[Len(books)]["id"] = Tokens[nano]
    /\ ~failed => sends[1].body["id"] = Tokens[nano]

\* C2: no two records of the collection have the same id.
C2_IdsUnique ==
  \A i, j \in 1..Len(books) : i # j => books[i]["id"] # books[j]["id"]

\* C3: no request changes the id of a stored record: a request other than
\* Delete keeps every record's id in place, and Delete leaves only records
\* that were stored before it.
C3_IdImmutable ==
  [][IF op' = "delete"
     THEN \A i \in 1..Len(books') : \E j \in 1..Len(books) : books'[i] = books[j]
     ELSE /\ Len(books') >= Len(books)
          /\ \A i \in 1..Len(books) : books'[i]["id"] = books[i]["id"]]_vars

\* C4: every request gets exactly one response: its handler sends once.
C4_OneResponse == op # "none" => Len(sends) = 1

\* C5: Get answers 404 when no record has the requested id, and otherwise
\* 200 with a record whose id is the requested id.
C5_GetByPresence ==
  op = "get" =>
    IF Has(books, reqId)
    THEN /\ sends[1].status = 200
         /\ "id" \in DOMAIN sends[1].body
         /\ sends[1].body["id"] = reqId
    ELSE sends[1].status = 404

\* C5 witness: a Get of an id that was generated but that no record carries
\* any more, beside a record that is still stored.
C5_Witness ==
  /\ op = "get"
  /\ reqId \in SeenIds
  /\ ~Has(books, reqId)
  /\ Len(books) > 0
  /\ sends[1].status = 404

\* C6: an Update of an existing id makes the first record with that id the
\* shallow merge of its prior value with the body, leaves the other records
\* alone, and a 200 response carries that merged record.
C6_UpdateMerges ==
  [][op' = "put" /\ Has(books, reqId') =>
       LET i == findIndex(books, reqId') IN
       /\ Len(books') = Len(books)
       /\ books'[i] = merge(books[i], reqBody')
       /\ \A j \in 1..Len(books) : j # i => books'[j] = books[j]
       /\ sends'[1].status = 200 => sends'[1].body = books'[i]]_vars

\* C7: a successful Create makes the collection List returns one record
\* longer, and a successful Delete of a present id makes it one shorter.
C7_CountByOne ==
  [][/\ op' = "post" /\ ~failed' => Len(books') = Len(books) + 1
     /\ op' = "delete" /\ ~failed' /\ Has(books, reqId') =>
          Len(books') = Len(books) - 1]_vars

\* C8: right after a Delete no record has the deleted id, and a Get of an id
\* no record has answers 404 (so every Get of the deleted id does, until a
\* request stores a record with that id again).
C8_DeletedIsGone ==
  /\ op = "delete" => ~Has(books, reqId)
  /\ op = "get" /\ ~Has(books, reqId) => sends[1].status = 404 /\ Len(sends) > 0

\* C8 witness: a successful Delete that removed every record of a duplicated
\* id at once.
C8_Witness ==
  /\ op = "delete"
  /\ ~failed
  /\ removed > 1
  /\ ~Has(books, reqId)

\* C9: when the store throws while persisting a Create, Update or Delete,
\* the handler answers 500 with the error and sends no 200.
C9_StoreFailureIs500 ==
  failed =>
    /\ op \in {"post", "put", "delete"}
    /\ sends[1] = Send(500, StoreError)
    /\ \A k \in 1..Len(sends) : sends[k].status # 200

\* C9 witness: an Update of an existing record whose write threw.
C9_Witness ==
  /\ failed
  /\ op = "put"
  /\ Has(books, reqId)
  /\ sends[1].status = 500

====
